---- MODULE Spec2Model ----
(***************************************************************************)
(* A model of the genetic-algorithm TSP engine: the route operators        *)
(* (mutate, ordered crossover, fitness), the selection of the fittest      *)
(* routes and the generational driver evolve_population.                   *)
(*                                                                         *)
(* Rust vectors are modelled as TLA+ sequences; a Rust index i is the      *)
(* TLA+ position i + 1.  Distances are integers (the f64 sums of the       *)
(* modelled matrices are exact).  A probability is a multiple of           *)
(* 1 / ProbDen; the uniform draw from [0, 1) ranges over 0 .. ProbDen - 1. *)
(***************************************************************************)
EXTENDS Integers, Sequences, FiniteSets, TLC

\* ---------------------------------------------------------------- bounds
\* Longest route the operator specification enumerates.
MaxLen == 4
\* Half of the number of grid points of a probability (0.5 is HalfSteps / ProbDen).
HalfSteps == 2
ProbDen == 2 * HalfSteps

\* ------------------------------------------------------ sentinel values
\* A panic (unwinding) of the called function; no Vec<usize> holds -1.
PANIC == <<-1>>
\* Option::None of the subsequence views.
NONE == <<-2>>

\* ------------------------------------------------------------- helpers
Max(x, y) == IF x >= y THEN x ELSE y
Min(x, y) == IF x <= y THEN x ELSE y
\* The elements of a vector, as a set.
Elems(v) == {v[i] : i \in DOMAIN v}
\* (lo..hi).collect::<Vec<usize>>(): the vector lo, lo + 1, ..., hi - 1.
RangeVec(lo, hi) == [i \in 1..Max(hi - lo, 0) |-> lo + i - 1]
\* All vectors that hold every index of 0..n exactly once.
PermutationsOf(n) == {[i \in 1..n |-> p[i] - 1] : p \in Permutations(1..n)}
\* All orderings of a finite set, as vectors.
RECURSIVE Orderings(_)
Orderings(S) ==
    IF S = {} THEN {<<>>}
    ELSE UNION {{<<x>> \o rest : rest \in Orderings(S \ {x})} : x \in S}

\* Vec::remove(idx): panics when idx is out of bounds.
VecRemove(v, idx) ==
    IF v = PANIC \/ idx >= Len(v) THEN PANIC
    ELSE SubSeq(v, 1, idx) \o SubSeq(v, idx + 2, Len(v))
\* Vec::insert(idx, item): panics when idx > len.
VecInsert(v, idx, item) ==
    IF v = PANIC \/ idx > Len(v) THEN PANIC
    ELSE SubSeq(v, 1, idx) \o <<item>> \o SubSeq(v, idx + 1, Len(v))

\* ------------------------------------------------------------ utils.rs
\* get_random_elem_from_range: the values the call can return.
get_random_elem_from_range(lo, hi) == IF lo < hi THEN lo..(hi - 1) ELSE {lo}

change_order_duplicate(data, put_before_idx, move_idx) ==
    IF put_before_idx /= move_idx
    THEN IF move_idx >= Len(data) THEN PANIC
         ELSE [data EXCEPT ![put_before_idx + 1] = data[move_idx + 1]]
    ELSE data

change_order_no_shift(data, put_before_idx, move_idx) ==
    IF put_before_idx /= move_idx
    THEN IF move_idx >= Len(data) THEN PANIC
         ELSE VecInsert(VecRemove(data, move_idx), put_before_idx, data[move_idx + 1])
    ELSE data

change_order(data, put_before_idx, move_idx) ==
    IF put_before_idx /= move_idx
    THEN IF move_idx >= Len(data) THEN PANIC
         ELSE LET move_item == data[move_idx + 1]
                  reset_index == IF move_idx < put_before_idx THEN 1 ELSE 0
              IN  VecInsert(VecRemove(data, move_idx),
                            Max(put_before_idx, reset_index) - reset_index,
                            move_item)
    ELSE data

remove_elem(data, elem_idx) == VecRemove(data, elem_idx)

RECURSIVE is_in(_, _)
is_in(value, elements) ==
    IF elements = <<>> THEN FALSE
    ELSE IF value = Head(elements) THEN TRUE
    ELSE is_in(value, Tail(elements))

\* ------------------------------------------------------ subsequence.rs
Subsequence(start_index, length) == [start_index |-> start_index, length |-> length]

random_subsequence_to_end(len_sequence) ==
    UNION {{Subsequence(start_index, length) :
                length \in get_random_elem_from_range(1, len_sequence - start_index + 1)} :
              start_index \in get_random_elem_from_range(0, len_sequence - 2)}

\* Subsequence::random_subsequence: the subsequences the call can return.
random_subsequence(len_sequence) ==
    UNION {{Subsequence(start_index, length) :
                length \in get_random_elem_from_range(1, len_sequence - start_index - 1)} :
              start_index \in get_random_elem_from_range(0, len_sequence - 2)}

get_values_in(sub, sequence) ==
    IF sub.start_index + sub.length <= Len(sequence)
    THEN SubSeq(sequence, sub.start_index + 1, sub.start_index + sub.length)
    ELSE NONE

get_values_before_checks_end(sub, sequence) ==
    IF sub.start_index + sub.length <= Len(sequence)
    THEN SubSeq(sequence, 1, sub.start_index)
    ELSE NONE

get_values_before(sub, sequence) ==
    IF sub.start_index <= Len(sequence)
    THEN SubSeq(sequence, 1, sub.start_index)
    ELSE NONE

get_values_after(sub, sequence) ==
    IF sub.start_index + sub.length <= Len(sequence)
    THEN SubSeq(sequence, sub.start_index + sub.length + 1, Len(sequence))
    ELSE NONE

\* ------------------------------------------------------------ utils.rs
\* One `for elem in elems { if !is_in(*elem, selection) { child.push(*elem) } }` loop.
RECURSIVE PushAbsentKeepAll(_, _, _)
PushAbsentKeepAll(child, elems, selection) ==
    IF elems = <<>> THEN child
    ELSE PushAbsentKeepAll(Append(child, Head(elems)), Tail(elems), selection)

RECURSIVE PushAbsent(_, _, _)
PushAbsent(child, elems, selection) ==
    IF elems = <<>> THEN child
    ELSE PushAbsent(IF is_in(Head(elems), selection) THEN child
                    ELSE Append(child, Head(elems)),
                    Tail(elems), selection)

ordered_crossover_before_first(parent_a, parent_b, subsequence) ==
    LET mapped_selection == get_values_in(subsequence, parent_a)
        in_b == get_values_in(subsequence, parent_b)
        after_b == get_values_after(subsequence, parent_b)
        before_b == get_values_before(subsequence, parent_b)
    IN  IF mapped_selection = NONE \/ in_b = NONE \/ after_b = NONE \/ before_b = NONE
        THEN PANIC
        ELSE PushAbsent(PushAbsent(PushAbsent(<<>>, before_b, mapped_selection),
                                   in_b, mapped_selection) \o mapped_selection,
                        after_b, mapped_selection)

ordered_crossover_swapped_parents(parent_a, parent_b, subsequence) ==
    LET mapped_selection == get_values_in(subsequence, parent_b)
        in_b == get_values_in(subsequence, parent_a)
        after_b == get_values_after(subsequence, parent_a)
        before_b == get_values_before(subsequence, parent_a)
    IN  IF mapped_selection = NONE \/ in_b = NONE \/ after_b = NONE \/ before_b = NONE
        THEN PANIC
        ELSE PushAbsent(PushAbsent(PushAbsent(<<>>, in_b, mapped_selection)
                                   \o mapped_selection,
                                   after_b, mapped_selection),
                        before_b, mapped_selection)

\* The four loops of ordered_crossover push, in this order: the receiver's values
\* in the subsequence that the donor's segment lacks, the donor's segment, the
\* receiver's values after and then before the subsequence that the segment lacks.
\* Every unwrap() of a None view panics.
ordered_crossover(parent_a, parent_b, subsequence) ==
    LET mapped_selection == get_values_in(subsequence, parent_a)
        in_b == get_values_in(subsequence, parent_b)
        after_b == get_values_after(subsequence, parent_b)
        before_b == get_values_before(subsequence, parent_b)
    IN  IF mapped_selection = NONE \/ in_b = NONE \/ after_b = NONE \/ before_b = NONE
        THEN PANIC
        ELSE PushAbsent(PushAbsent(PushAbsent(<<>>, in_b, mapped_selection)
                                   \o mapped_selection,
                                   after_b, mapped_selection),
                        before_b, mapped_selection)

\* ------------------------------------------------------------ route.rs
\* The list mutate draws the donor from: 0 .. len - 2 without put_before_idx and
\* without the entry at position max(put_before_idx, 1) - 1 of what is left.
DonorCandidates_only_self(indexes, put_before_idx) ==
    remove_elem(RangeVec(0, Len(indexes) - 1), put_before_idx)

DonorCandidates(indexes, put_before_idx) ==
    remove_elem(remove_elem(RangeVec(0, Len(indexes) - 1), put_before_idx),
                Max(put_before_idx, 1) - 1)

\* The values choose(..).unwrap_or(&((put_before_idx + 1) % len)) can yield;
\* -1 stands for the panic of an out-of-bounds remove_elem.
MoveIdxChoices(indexes, put_before_idx) ==
    LET candidates == DonorCandidates(indexes, put_before_idx)
    IN  IF candidates = PANIC THEN {-1}
        ELSE IF candidates = <<>> THEN {(put_before_idx + 1) % Len(indexes)}
        ELSE Elems(candidates)

\* The values the first draw of the mutation branch can yield.
PutBeforeChoices(indexes) == get_random_elem_from_range(0, Len(indexes) - 1)

\* Route::mutate for given outcomes of its random draws: draw is the sample of
\* [0, 1), put_before_idx and move_idx the sampled positions.
mutate(indexes, prob, draw, put_before_idx, move_idx) ==
    IF draw > prob THEN indexes
    ELSE IF move_idx = -1 THEN PANIC
    ELSE change_order(indexes, put_before_idx, move_idx)

\* Route::crossover for a given outcome of Subsequence::random_subsequence.
crossover(self, other, subsequence) == ordered_crossover(self, other, subsequence)

\* ------------------------------------------------------ distance_mat.rs
\* The matrix of test_utils::test_dist_mat.
test_dist_mat == <<<<0, 1, 2>>, <<1, 0, 3>>, <<2, 3, 0>>>>
\* A matrix that is neither symmetric nor zero on the diagonal (DistanceMat::new
\* validates nothing).
asym_dist_mat == <<<<1, 1, 2>>, <<4, 0, 3>>, <<5, 7, 2>>>>

n_units(distances) == Len(distances)
Distance(distances, from, to) == distances[from + 1][to + 1]

\* The closure of the fold: last_point = -1 stands for None.
RECURSIVE FoldCost(_, _, _, _)
FoldCost(distances, loss, last_point, rest) ==
    IF rest = <<>> THEN loss
    ELSE FoldCost(distances,
                  IF last_point = -1 THEN loss
                  ELSE loss + Distance(distances, last_point, Head(rest)),
                  Head(rest), Tail(rest))

compute_cost(distances, indexes) ==
    FoldCost(distances,
             Distance(distances, indexes[Len(indexes)], indexes[1]),
             -1, indexes)

\* distances[from][to] panics on an index out of bounds.
DistancePanics(distances, from, to) ==
    \/ from >= Len(distances)
    \/ to >= Len(distances[from + 1])

\* compute_cost panics on an empty route (indexes.len() - 1 underflows) and on
\* every lookup of a node the matrix lacks.
compute_cost_panics(distances, indexes) ==
    \/ indexes = <<>>
    \/ DistancePanics(distances, indexes[Len(indexes)], indexes[1])
    \/ \E i \in 1..(Len(indexes) - 1) :
          DistancePanics(distances, indexes[i], indexes[i + 1])

\* ------------------------------------------------------------ route.rs
fitness_positive(indexes, distance_mat) == compute_cost(distance_mat, indexes)

fitness(indexes, distance_mat) == -compute_cost(distance_mat, indexes)

\* ------------------------------------------------------------ utils.rs
reverse_ordering_identity(ordering) == ordering

reverse_ordering(ordering) ==
    CASE ordering = "Greater" -> "Less"
      [] ordering = "Less" -> "Greater"
      [] ordering = "Equal" -> "Equal"

partial_cmp(x, y) == IF x < y THEN "Less" ELSE IF x > y THEN "Greater" ELSE "Equal"

\* The comparator argsort hands to sort_by, on two indices of data.
ArgsortCompare(data, a_idx, b_idx) ==
    reverse_ordering(partial_cmp(data[a_idx + 1], data[b_idx + 1]))

\* sort_by is a stable sort: an index is placed before the first index it is
\* strictly Less than, so equal entries keep their order.
RECURSIVE StableInsert(_, _, _)
StableInsert(data, sorted, idx) ==
    IF sorted = <<>> THEN <<idx>>
    ELSE IF ArgsortCompare(data, idx, Head(sorted)) = "Less" THEN <<idx>> \o sorted
    ELSE <<Head(sorted)>> \o StableInsert(data, Tail(sorted), idx)

RECURSIVE StableSort(_, _, _)
StableSort(data, sorted, indices) ==
    IF indices = <<>> THEN sorted
    ELSE StableSort(data, StableInsert(data, sorted, Head(indices)), Tail(indices))

argsort(data) == StableSort(data, <<>>, RangeVec(0, Len(data)))

\* ---------------------------------------------------------- gen_traits.rs
\* `iter` is the population in the order its HashSet iterates.
fitnesses(iter, cost_data) ==
    [i \in DOMAIN iter |-> [fitness |-> fitness(iter[i], cost_data), solution |-> iter[i]]]

\* fitnesses computes the fitness of every member: it panics when one does.
fitnesses_panic(routes, cost_data) ==
    \E route \in routes : compute_cost_panics(cost_data, route)

\* Iterator::take(n) on a vector.
Take(v, n) == SubSeq(v, 1, Min(n, Len(v)))

get_n_fittest(iter, n, cost_data) ==
    LET solutions_by_fitness == fitnesses(iter, cost_data)
        sorted == argsort([i \in DOMAIN iter |-> solutions_by_fitness[i].fitness])
        taken == Take(sorted, n)
    IN  [i \in DOMAIN taken |-> solutions_by_fitness[taken[i] + 1].solution]

\* ----------------------------------------------------------------- routes.rs
\* HashSet::insert on the entries the set stores: a route equal to a stored one
\* (Route derives Eq and Hash from its indexes) is not stored again.
HashSetInsert_keep_duplicates(entries, route) == Append(entries, route)

HashSetInsert(entries, route) ==
    IF \E i \in DOMAIN entries : entries[i] = route THEN entries
    ELSE Append(entries, route)

\* `for route in routes { routes_as_hashset.insert(route); }`
RECURSIVE InsertAll(_, _)
InsertAll(entries, routes) ==
    IF routes = <<>> THEN entries
    ELSE InsertAll(HashSetInsert(entries, Head(routes)), Tail(routes))

\* route_vec_to_xx_hashset: the HashSet<Route> as the set of its stored entries.
route_vec_to_xx_hashset(routes) == Elems(InsertAll(<<>>, routes))

\* =================================================================== state
VARIABLES
    call,       \* one call of a route operator: its arguments, its random draws, its result
    pc,         \* where evolve_population stands
    args,       \* the arguments of evolve_population
    pop,        \* the accumulator of the sequential fold
    gen,        \* the generations the sequential fold has run
    workers,    \* the spawned workers, in spawn order: status, population, generations, elite list
    collected,  \* the routes flat_map has taken from the joined workers
    returned    \* the population evolve_population returned

vars == <<call, pc, args, pop, gen, workers, collected, returned>>
driver_vars == <<pc, args, pop, gen, workers, collected, returned>>

\* ------------------------------------------------ operator specification
NoSub == Subsequence(0, 0)
NoCall ==
    [op |-> "none", stage |-> "done", a |-> <<>>, b |-> <<>>, sub |-> NoSub,
     prob |-> 0, draw |-> 0, put_before_idx |-> 0, move_idx |-> 0, result |-> <<>>,
     dm |-> <<>>, iter |-> <<>>, n |-> 0, selected |-> <<>>, cost |-> 0, fit |-> 0,
     entries |-> <<>>, crossed |-> <<>>, individuals |-> <<>>,
     values_in |-> <<>>, values_before |-> <<>>, values_after |-> <<>>,
     evolved |-> {}]

\* The driver is not running while single operators are called.
DriverIdle ==
    /\ pc = "idle"
    /\ args = [initial_population |-> {}, n_generations |-> 0, size_generation |-> 0,
               distance_matrix |-> <<>>, n_jobs |-> 0]
    /\ pop = {}
    /\ gen = 0
    /\ workers = <<>>
    /\ collected = <<>>
    /\ returned = {}

Lengths == 2..MaxLen
Probs == 0..ProbDen
Draws == 0..(ProbDen - 1)
\* The routes of the selection calls: visits of distinct nodes of the test matrix.
SelRoutes == UNION {PermutationsOf(n_units(test_dist_mat)),
                    {<<x, y>> : x, y \in 0..(n_units(test_dist_mat) - 1)} \ 
                        {<<x, x>> : x \in 0..(n_units(test_dist_mat) - 1)}}
MaxPop == 3
\* The vectors Routes::from is called on: up to MaxPop routes, repeats allowed.
RouteVecs == UNION {[1..k -> PermutationsOf(n_units(test_dist_mat))] : k \in 0..MaxPop}
\* Closed walks of up to MaxLen nodes, repeats allowed.
Walks(dim) == UNION {[1..k -> 0..(dim - 1)] : k \in 1..MaxLen}

\* ---------------------------------------------------------- gen_traits.rs
\* The routes main.crossover(other).mutate(mutate_prob) can yield, over every
\* outcome of the random subsequence and of the three draws of mutate.
Offspring(main_solution, solution, mutate_prob) ==
    UNION {LET child == crossover(main_solution, solution, sub)
           IN  IF child = PANIC THEN {PANIC}
               ELSE {mutate(child, mutate_prob, draw, put_before_idx, move_idx) :
                        <<draw, put_before_idx, move_idx>> \in
                            UNION {{<<d, p, m>> : m \in MoveIdxChoices(child, p)} :
                                      <<d, p>> \in Draws \X PutBeforeChoices(child)}} :
              sub \in random_subsequence(Len(main_solution))}

\* The pairs (idx, solution_index) in the order the two nested enumerations visit
\* them, the inner one filtered by solution_index != idx, as Rust indices.
CrossPairSeq_one_direction(len) ==
    LET Kept(pair) == pair[2] > pair[1]
    IN  SelectSeq([k \in 1..(len * len) |-> <<(k - 1) \div len, (k - 1) % len>>], Kept)

CrossPairSeq_with_self(len) ==
    [k \in 1..(len * len) |-> <<(k - 1) \div len, (k - 1) % len>>]

CrossPairSeq(len) ==
    LET Kept(pair) == pair[2] /= pair[1]
    IN  SelectSeq([k \in 1..(len * len) |-> <<(k - 1) \div len, (k - 1) % len>>], Kept)

\* The same pairs as a set.
CrossPairs(len) == Elems(CrossPairSeq(len))

\* map + flatten: the vectors of offspring the crossovers of the pairs can yield,
\* one offspring per pair, in the order of the pairs.
RECURSIVE OffspringVecs(_, _, _)
OffspringVecs(iter, pairs, mutate_prob) ==
    IF pairs = <<>> THEN {<<>>}
    ELSE {<<child>> \o rest :
             child \in Offspring(iter[Head(pairs)[1] + 1], iter[Head(pairs)[2] + 1],
                                 mutate_prob),
             rest \in OffspringVecs(iter, Tail(pairs), mutate_prob)}

\* The sets of offspring the crossovers of the given pairs can yield together.
RECURSIVE OffspringSets(_, _, _)
OffspringSets(iter, pairs, mutate_prob) ==
    IF pairs = {} THEN {{}}
    ELSE LET pair == CHOOSE q \in pairs : TRUE
         IN  {rest \cup {child} :
                 rest \in OffspringSets(iter, pairs \ {pair}, mutate_prob),
                 child \in Offspring(iter[pair[1] + 1], iter[pair[2] + 1], mutate_prob)}

evolve_individuals_without_parents(iter, mutate_prob) ==
    OffspringSets(iter, CrossPairs(Len(iter)), mutate_prob)

\* The individuals the vector evolve_individuals returns can hold: one offspring
\* per ordered pair of distinct members, chained with the clones of all members.
evolve_individuals(iter, mutate_prob) ==
    {offspring \cup Elems(iter) :
        offspring \in OffspringSets(iter, CrossPairs(Len(iter)), mutate_prob)}

\* ----------------------------------------------------------------- routes.rs
\* A vector that holds the members of a set, each once.
RECURSIVE VecOf(_)
VecOf(S) ==
    IF S = {} THEN <<>>
    ELSE LET x == CHOOSE y \in S : TRUE IN <<x>> \o VecOf(S \ {x})

\* What a call that unwinds leaves in place of a population.
Unwound == {PANIC}

\* Routes::evolve: the populations the call can return; it unwinds when a
\* crossover or a mutation panics.
evolve_offspring_only(routes, mutate_prob) ==
    {IF PANIC \in individuals THEN Unwound
     ELSE route_vec_to_xx_hashset(VecOf(individuals)) :
        individuals \in evolve_individuals_without_parents(VecOf(routes), mutate_prob)}

evolve(routes, mutate_prob) ==
    {IF PANIC \in individuals THEN Unwound
     ELSE route_vec_to_xx_hashset(VecOf(individuals)) :
        individuals \in evolve_individuals(VecOf(routes), mutate_prob)}

get_fittest_population_best_only(iter, n, distance_mat) ==
    route_vec_to_xx_hashset(get_n_fittest(iter, Min(n, 1), distance_mat))

\* Routes::get_fittest_population, the set iterating in the order iter.
get_fittest_population(iter, n, distance_mat) ==
    route_vec_to_xx_hashset(get_n_fittest(iter, n, distance_mat))

\* The mutation probability 0.5 that evolve_population hands to evolve.
MutateProb == HalfSteps

\* One iteration of the fold: pop.evolve(0.5).get_fittest_population(size_generation, dm),
\* over every outcome of the draws and every iteration order of the evolved set;
\* it unwinds when evolve or a fitness of the evolved set panics.
Generation(population, size_generation, distance_matrix) ==
    UNION {IF evolved = Unwound \/ fitnesses_panic(evolved, distance_matrix)
           THEN {Unwound}
           ELSE {get_fittest_population(iter, size_generation, distance_matrix) :
                    iter \in Orderings(evolved)} :
              evolved \in evolve(population, MutateProb)}

\* The upper end of the range a worker folds over: (n_generations / n_jobs) + 1.
GenerationsPerWorker(n_generations, n_jobs) == (n_generations \div n_jobs) + 1

\* ------------------------------------------- operator specification: calls
\* The populations evolve_individuals is called on, in every iteration order: up
\* to two routes of three nodes, and the three routes of test_evolve::simple_test.
EvolveInputs ==
    UNION {Orderings(P) :
              P \in {Q \in SUBSET PermutationsOf(n_units(test_dist_mat)) :
                         Cardinality(Q) < n_units(test_dist_mat)}
                     \cup {{<<1, 2, 0>>, <<1, 0, 2>>, <<2, 1, 0>>}}}

InitOps ==
    /\ DriverIdle
    /\ \/ \E n \in Lengths : \E a \in PermutationsOf(n) : \E prob \in Probs :
             call = [NoCall EXCEPT !.op = "mutate", !.stage = "input", !.a = a, !.prob = prob]
       \/ \E n \in Lengths : \E a, b \in PermutationsOf(n) :
             call = [NoCall EXCEPT !.op = "crossover", !.stage = "input", !.a = a, !.b = b]
       \/ \E n \in Lengths : \E a, b \in PermutationsOf(n) :
          \E start_index, length \in 0..n :
             call = [NoCall EXCEPT !.op = "ordered_crossover", !.stage = "input",
                                   !.a = a, !.b = b,
                                   !.sub = Subsequence(start_index, length)]
       \/ \E dm \in {test_dist_mat, asym_dist_mat} : \E a \in Walks(n_units(dm)) :
             call = [NoCall EXCEPT !.op = "fitness", !.stage = "input", !.a = a, !.dm = dm]
       \/ \E P \in SUBSET SelRoutes : \E n \in 0..(MaxPop + 1) :
             /\ Cardinality(P) <= MaxPop
             /\ \E iter \in Orderings(P) :
                  call = [NoCall EXCEPT !.op = "get_n_fittest", !.stage = "input",
                                        !.iter = iter, !.n = n, !.dm = test_dist_mat]
       \/ \E routes \in RouteVecs :
             call = [NoCall EXCEPT !.op = "from", !.stage = "input", !.iter = routes]
       \/ \E n \in Lengths : \E a \in PermutationsOf(n) :
          \E put_before_idx, move_idx \in 0..(n - 1) :
             call = [NoCall EXCEPT !.op = "change_order", !.stage = "input", !.a = a,
                                   !.put_before_idx = put_before_idx,
                                   !.move_idx = move_idx]
       \/ \E iter \in EvolveInputs : \E mutate_prob \in {0, MutateProb, ProbDen} :
             call = [NoCall EXCEPT !.op = "evolve", !.stage = "input",
                                   !.iter = iter, !.prob = mutate_prob]
       \/ \E n \in Lengths : \E a \in PermutationsOf(n) :
          \E start_index, length \in 0..(n + 1) :
             call = [NoCall EXCEPT !.op = "get_values", !.stage = "input", !.a = a,
                                   !.sub = Subsequence(start_index, length)]
       \/ \E iter \in EvolveInputs :
             call = [NoCall EXCEPT !.op = "evolve_individuals", !.stage = "input",
                                   !.iter = iter, !.prob = MutateProb]

\* route.mutate(prob), for every outcome of its three random draws.
Mutate ==
    /\ call.op = "mutate" /\ call.stage = "input"
    /\ \E draw \in Draws :
       \E put_before_idx \in PutBeforeChoices(call.a) :
       \E move_idx \in MoveIdxChoices(call.a, put_before_idx) :
          call' = [call EXCEPT !.stage = "done", !.draw = draw,
                               !.put_before_idx = put_before_idx, !.move_idx = move_idx,
                               !.result = mutate(call.a, call.prob, draw,
                                                 put_before_idx, move_idx)]
    /\ UNCHANGED driver_vars

\* a.crossover(&b), for every subsequence random_subsequence can return.
Crossover ==
    /\ call.op = "crossover" /\ call.stage = "input"
    /\ \E sub \in random_subsequence(Len(call.a)) :
          call' = [call EXCEPT !.stage = "done", !.sub = sub,
                               !.result = crossover(call.a, call.b, sub)]
    /\ UNCHANGED driver_vars

\* ordered_crossover(&a, &b, subsequence) on a given subsequence.
OrderedCrossover ==
    /\ call.op = "ordered_crossover" /\ call.stage = "input"
    /\ call' = [call EXCEPT !.stage = "done",
                            !.result = ordered_crossover(call.a, call.b, call.sub)]
    /\ UNCHANGED driver_vars

\* DistanceMat::compute_cost and Route::fitness on the same sequence.
Fitness ==
    /\ call.op = "fitness" /\ call.stage = "input"
    /\ call' = [call EXCEPT !.stage = "done",
                            !.cost = compute_cost(call.dm, call.a),
                            !.fit = fitness(call.a, call.dm)]
    /\ UNCHANGED driver_vars

\* routes.get_n_fittest(n, &distance_mat), the set iterating in the order call.iter.
GetNFittest ==
    /\ call.op = "get_n_fittest" /\ call.stage = "input"
    /\ call' = [call EXCEPT !.stage = "done",
                            !.selected = get_n_fittest(call.iter, call.n, call.dm)]
    /\ UNCHANGED driver_vars

\* Routes::from(routes): the entries of the HashSet it builds.
From ==
    /\ call.op = "from" /\ call.stage = "input"
    /\ call' = [call EXCEPT !.stage = "done", !.entries = InsertAll(<<>>, call.iter)]
    /\ UNCHANGED driver_vars

\* population.evolve_individuals(mutate_prob), the set iterating in the order
\* call.iter: the crossover calls it makes and the vector it collects, for every
\* outcome of the random draws.
EvolveIndividuals ==
    /\ call.op = "evolve_individuals" /\ call.stage = "input"
    /\ LET pairs == CrossPairSeq(Len(call.iter))
       IN  \E offspring \in OffspringVecs(call.iter, pairs, call.prob) :
              call' = [call EXCEPT
                          !.stage = "done",
                          !.crossed = [k \in DOMAIN pairs |->
                                          <<call.iter[pairs[k][1] + 1],
                                            call.iter[pairs[k][2] + 1]>>],
                          !.individuals = offspring \o call.iter]
    /\ UNCHANGED driver_vars

\* routes.evolve(mutate_prob) on the population with the members of call.iter,
\* for every outcome of the random draws.
Evolve ==
    /\ call.op = "evolve" /\ call.stage = "input"
    /\ \E evolved \in evolve(Elems(call.iter), call.prob) :
          call' = [call EXCEPT !.stage = "done", !.evolved = evolved]
    /\ UNCHANGED driver_vars

\* change_order(&data, put_before_idx, move_idx) on given positions.
ChangeOrder ==
    /\ call.op = "change_order" /\ call.stage = "input"
    /\ call' = [call EXCEPT !.stage = "done",
                            !.result = change_order(call.a, call.put_before_idx,
                                                    call.move_idx)]
    /\ UNCHANGED driver_vars

\* The three views of a subsequence on one sequence.
GetValues ==
    /\ call.op = "get_values" /\ call.stage = "input"
    /\ call' = [call EXCEPT !.stage = "done",
                            !.values_in = get_values_in(call.sub, call.a),
                            !.values_before = get_values_before(call.sub, call.a),
                            !.values_after = get_values_after(call.sub, call.a)]
    /\ UNCHANGED driver_vars

NextOps ==
    \/ Mutate
    \/ Crossover
    \/ OrderedCrossover
    \/ Fitness
    \/ GetNFittest
    \/ From
    \/ EvolveIndividuals
    \/ GetValues
    \/ Evolve
    \/ ChangeOrder

SpecOps == InitOps /\ [][NextOps]_vars

\* ------------------------------------------ random initialisation: calls
\* The route lengths Routes::random is called with: up to the n_objects of
\* tests::random_constructor.
RandomLengths == 1..n_units(test_dist_mat)

\* The populations add_n_random_nodes is called on, in their iteration order: the
\* empty one, the single route of tests::add_n_random_nodes, and two routes.
AddInputs ==
    {<<>>, <<<<0, 1, 2>>>>, <<<<0, 1>>>>, <<<<0, 1, 2>>, <<2, 1, 0>>>>}

\* The numbers of permutations of 0 .. route_length.
RECURSIVE Factorial(_)
Factorial(n) == IF n = 0 THEN 1 ELSE n * Factorial(n - 1)

InitRandom ==
    /\ DriverIdle
    /\ \/ \E route_length \in RandomLengths : \E n_routes \in 0..(Factorial(route_length) + 1) :
             call = [NoCall EXCEPT !.op = "random", !.stage = "loop",
                                   !.a = RangeVec(0, route_length), !.n = n_routes]
       \/ \E routes \in AddInputs : \E n_random_nodes \in {0, 1, Factorial(2), Factorial(3)} :
             call = [NoCall EXCEPT !.op = "add_n_random_nodes", !.stage = "input",
                                   !.iter = routes, !.n = n_random_nodes]

\* add_n_random_nodes up to its call of Routes::random: get_n_nodes unwraps the
\* length of the first route and panics on a population without routes.
AddStart ==
    /\ call.op = "add_n_random_nodes" /\ call.stage = "input"
    /\ IF call.iter = <<>>
       THEN call' = [call EXCEPT !.stage = "panicked", !.result = PANIC]
       ELSE call' = [call EXCEPT !.stage = "loop",
                                 !.a = RangeVec(0, Len(Head(call.iter)))]
    /\ UNCHANGED driver_vars

\* One pass of the while loop of Routes::random: the set has fewer than n_routes
\* members, a random permutation of all_objects is inserted.
RandomInsert_stop_on_duplicate ==
    /\ call.stage = "loop"
    /\ Len(call.entries) < call.n
    /\ \E permutation \in PermutationsOf(Len(call.a)) :
          IF \E i \in DOMAIN call.entries : call.entries[i] = permutation
          THEN call' = [call EXCEPT !.stage = "done"]
          ELSE call' = [call EXCEPT !.entries = HashSetInsert(call.entries, permutation)]
    /\ UNCHANGED driver_vars

RandomInsert ==
    /\ call.stage = "loop"
    /\ Len(call.entries) < call.n
    /\ \E permutation \in PermutationsOf(Len(call.a)) :
          call' = [call EXCEPT !.entries = HashSetInsert(call.entries, permutation)]
    /\ UNCHANGED driver_vars

\* The loop of Routes::random is left; add_n_random_nodes combines the routes of
\* the population with the random ones (add_vec_route, Routes::from).
RandomReturn ==
    /\ call.stage = "loop"
    /\ ~(Len(call.entries) < call.n)
    /\ call' = [call EXCEPT
                   !.stage = "done",
                   !.individuals = IF call.op = "add_n_random_nodes"
                                   THEN InsertAll(<<>>, call.iter \o call.entries)
                                   ELSE <<>>]
    /\ UNCHANGED driver_vars

NextRandom ==
    \/ AddStart
    \/ RandomInsert
    \/ RandomReturn

\* Fair random sampling: a pass of the loop that can insert a new permutation
\* is eventually one that does.
FairRandom ==
    /\ InitRandom
    /\ [][NextRandom]_vars
    /\ WF_vars(AddStart)
    /\ WF_vars(RandomInsert)
    /\ WF_vars(RandomReturn)

\* ------------------------------------------------- driver specification
\* A 4 x 4 symmetric matrix whose three tours cost 5, 11 and 12.
dist_mat_4 ==
    <<<<0, 1, 5, 2>>, <<1, 0, 1, 4>>, <<5, 1, 0, 1>>, <<2, 4, 1, 0>>>>

\* The 2 x 2 matrix of two locations.
dist_mat_2 == <<<<0, 1>>, <<1, 0>>>>

MaxGenerations == 2
MaxSizeGeneration == 2
MaxJobs == 2

\* The initial populations: two routes of test_evolve::simple_test on the test
\* matrix; two routes, one route and no route on the 4 x 4 matrix; the two routes
\* of two locations, whose mutation panics in remove_elem; and a route of four
\* nodes on the 3 x 3 test matrix, whose fitness panics on distances[..][3].
Inputs ==
    {[initial_population |-> {<<1, 2, 0>>, <<1, 0, 2>>}, distance_matrix |-> test_dist_mat],
     [initial_population |-> {<<0, 2, 1, 3>>, <<0, 1, 3, 2>>}, distance_matrix |-> dist_mat_4],
     [initial_population |-> {<<0, 2, 1, 3>>}, distance_matrix |-> dist_mat_4],
     [initial_population |-> {}, distance_matrix |-> dist_mat_4],
     [initial_population |-> {<<0, 1>>, <<1, 0>>}, distance_matrix |-> dist_mat_2],
     [initial_population |-> {<<0, 1, 3, 2>>}, distance_matrix |-> test_dist_mat]}

\* A run hands n_jobs * n_generations <= MaxGenerations to the driver, so that two
\* workers run one generation each and one worker up to MaxGenerations + 1.
InitOn(inputs) ==
    /\ call = NoCall
    /\ pc = "call"
    /\ \E input \in inputs :
       \E n_generations \in 0..MaxGenerations :
       \E size_generation \in 0..MaxSizeGeneration :
       \E n_jobs \in 0..MaxJobs :
          /\ n_jobs * n_generations <= MaxGenerations
          /\ args = [initial_population |-> input.initial_population,
                     n_generations |-> n_generations,
                     size_generation |-> size_generation,
                     distance_matrix |-> input.distance_matrix,
                     n_jobs |-> n_jobs]
    /\ pop = {}
    /\ gen = 0
    /\ workers = <<>>
    /\ collected = <<>>
    /\ returned = {}

Init == InitOn(Inputs)

\* `if n_jobs == 0`: the fold starts from the initial population.
EnterFold ==
    /\ pc = "call"
    /\ args.n_jobs = 0
    /\ pc' = "fold"
    /\ pop' = args.initial_population
    /\ UNCHANGED <<call, args, gen, workers, collected, returned>>

FoldGeneration_no_progress ==
    /\ pc = "fold"
    /\ gen < args.n_generations
    /\ \E next \in Generation(pop, args.size_generation, args.distance_matrix) :
          IF next = Unwound
          THEN pc' = "panicked" /\ UNCHANGED <<pop, gen>>
          ELSE pop' = next /\ UNCHANGED <<gen, pc>>
    /\ UNCHANGED <<call, args, workers, collected, returned>>

\* One iteration of the single-thread fold; a panic of the closure unwinds
\* evolve_population.
FoldGeneration ==
    /\ pc = "fold"
    /\ gen < args.n_generations
    /\ \E next \in Generation(pop, args.size_generation, args.distance_matrix) :
          IF next = Unwound
          THEN pc' = "panicked" /\ UNCHANGED <<pop, gen>>
          ELSE pop' = next /\ gen' = gen + 1 /\ UNCHANGED pc
    /\ UNCHANGED <<call, args, workers, collected, returned>>

\* The fold is over: its accumulator is the value of evolve_population.
FoldReturn ==
    /\ pc = "fold"
    /\ gen = args.n_generations
    /\ returned' = pop
    /\ pc' = "returned"
    /\ UNCHANGED <<call, args, pop, gen, workers, collected>>

\* `else`: thread::scope opens with an empty vector of handles.
EnterScope ==
    /\ pc = "call"
    /\ args.n_jobs > 0
    /\ pc' = "spawn"
    /\ UNCHANGED <<call, args, pop, gen, workers, collected, returned>>

\* One iteration of `for _ in 0..n_jobs`: clone the initial population and spawn
\* a worker that owns the clone.
Spawn ==
    /\ pc = "spawn"
    /\ Len(workers) < args.n_jobs
    /\ workers' = Append(workers, [status |-> "running",
                                   pop |-> args.initial_population,
                                   gen |-> 0,
                                   elite |-> <<>>])
    /\ pc' = IF Len(workers') = args.n_jobs THEN "join" ELSE "spawn"
    /\ UNCHANGED <<call, args, pop, gen, collected, returned>>

WorkerGeneration_shared(w) ==
    /\ w \in DOMAIN workers
    /\ workers[w].status = "running"
    /\ workers[w].gen < GenerationsPerWorker(args.n_generations, args.n_jobs)
    /\ \E next \in Generation(workers[w].pop, args.size_generation, args.distance_matrix) :
          workers' = IF next = Unwound
                     THEN [workers EXCEPT ![w].status = "panicked"]
                     ELSE [v \in DOMAIN workers |->
                              IF v = w THEN [workers[v] EXCEPT !.pop = next, !.gen = @ + 1]
                              ELSE IF workers[v].status = "running"
                                   THEN [workers[v] EXCEPT !.pop = next]
                                   ELSE workers[v]]
    /\ UNCHANGED <<call, pc, args, pop, gen, collected, returned>>

\* One iteration of the fold of worker w; a panic of the closure ends the thread.
WorkerGeneration(w) ==
    /\ w \in DOMAIN workers
    /\ workers[w].status = "running"
    /\ workers[w].gen < GenerationsPerWorker(args.n_generations, args.n_jobs)
    /\ \E next \in Generation(workers[w].pop, args.size_generation, args.distance_matrix) :
          workers' = IF next = Unwound
                     THEN [workers EXCEPT ![w].status = "panicked"]
                     ELSE [workers EXCEPT ![w].pop = next, ![w].gen = @ + 1]
    /\ UNCHANGED <<call, pc, args, pop, gen, collected, returned>>

\* The fold of worker w is over: its closure returns get_n_fittest of its population.
WorkerFinish(w) ==
    /\ w \in DOMAIN workers
    /\ workers[w].status = "running"
    /\ workers[w].gen = GenerationsPerWorker(args.n_generations, args.n_jobs)
    /\ IF fitnesses_panic(workers[w].pop, args.distance_matrix)
       THEN workers' = [workers EXCEPT ![w].status = "panicked"]
       ELSE \E iter \in Orderings(workers[w].pop) :
               workers' = [workers EXCEPT
                              ![w].status = "finished",
                              ![w].elite = get_n_fittest(iter, args.size_generation,
                                                         args.distance_matrix)]
    /\ UNCHANGED <<call, pc, args, pop, gen, collected, returned>>

\* The handles joined so far; flat_map joins them in spawn order.
Joined == {w \in DOMAIN workers : workers[w].status = "joined"}

Join_without_waiting ==
    /\ pc = "join"
    /\ Cardinality(Joined) < Len(workers)
    /\ LET w == Cardinality(Joined) + 1
       IN  /\ workers' = [workers EXCEPT ![w].status = "joined"]
           /\ collected' = collected \o workers[w].elite
           /\ UNCHANGED pc
    /\ UNCHANGED <<call, args, pop, gen, returned>>

Join_skip_panicked ==
    /\ pc = "join"
    /\ Cardinality(Joined) < Len(workers)
    /\ LET w == Cardinality(Joined) + 1
       IN  /\ workers[w].status \in {"finished", "panicked"}
           /\ workers' = [workers EXCEPT ![w].status = "joined"]
           /\ collected' = collected \o workers[w].elite
           /\ UNCHANGED pc
    /\ UNCHANGED <<call, args, pop, gen, returned>>

\* flat_map takes the next handle: join() blocks until that worker has ended. The
\* routes of a worker that finished go into the collected vector; join() of a
\* worker that panicked is an Err, and its unwrap() panics inside the scope.
Join ==
    /\ pc = "join"
    /\ Cardinality(Joined) < Len(workers)
    /\ LET w == Cardinality(Joined) + 1
       IN  \/ /\ workers[w].status = "finished"
              /\ workers' = [workers EXCEPT ![w].status = "joined"]
              /\ collected' = collected \o workers[w].elite
              /\ UNCHANGED pc
           \/ /\ workers[w].status = "panicked"
              /\ pc' = "unwinding"
              /\ UNCHANGED <<workers, collected>>
    /\ UNCHANGED <<call, args, pop, gen, returned>>

\* thread::scope caught the panic of its closure: it waits for the workers that
\* are left and then resumes the unwinding into the caller of evolve_population.
ScopeUnwind ==
    /\ pc = "unwinding"
    /\ \A w \in DOMAIN workers : workers[w].status /= "running"
    /\ pc' = "panicked"
    /\ UNCHANGED <<call, args, pop, gen, workers, collected, returned>>

ScopeReturn_truncated ==
    /\ pc = "join"
    /\ Cardinality(Joined) = Len(workers)
    /\ \E iter \in Orderings(route_vec_to_xx_hashset(collected)) :
          returned' = get_fittest_population(iter, args.size_generation,
                                             args.distance_matrix)
    /\ pc' = "returned"
    /\ UNCHANGED <<call, args, pop, gen, workers, collected>>

\* Every handle is joined: Routes::from(collected) is the value of evolve_population.
ScopeReturn ==
    /\ pc = "join"
    /\ Cardinality(Joined) = Len(workers)
    /\ returned' = route_vec_to_xx_hashset(collected)
    /\ pc' = "returned"
    /\ UNCHANGED <<call, args, pop, gen, workers, collected>>

Next ==
    \/ EnterFold
    \/ FoldGeneration
    \/ FoldReturn
    \/ EnterScope
    \/ Spawn
    \/ \E w \in DOMAIN workers : WorkerGeneration(w)
    \/ \E w \in DOMAIN workers : WorkerFinish(w)
    \/ Join
    \/ ScopeUnwind
    \/ ScopeReturn

Spec == Init /\ [][Next]_vars

\* The runs on the matrices of two and of three locations.
SmallInputs == {input \in Inputs : n_units(input.distance_matrix) < n_units(dist_mat_4)}

SpecSmall == InitOn(SmallInputs) /\ [][Next]_vars

\* The scheduler lets the thread of evolve_population and every spawned worker
\* take its next step.
Driver ==
    \/ EnterFold
    \/ FoldGeneration
    \/ FoldReturn
    \/ EnterScope
    \/ Spawn
    \/ Join
    \/ ScopeUnwind
    \/ ScopeReturn

\* The runs from at most one route: what a generation keeps does not steer the
\* fold, the spawn loop or the joins, and a generation of such a run is one call.
SingleInputs == {input \in Inputs : Cardinality(input.initial_population) <= 1}

FairSpec ==
    /\ InitOn(SingleInputs)
    /\ [][Next]_vars
    /\ WF_vars(Driver)
    /\ \A w \in 1..MaxJobs : WF_vars(WorkerGeneration(w) \/ WorkerFinish(w))

\* ============================================== properties of the operators
Done(op) == call.op = op /\ call.stage = "done"
\* v holds every index of 0..n exactly once.
IsPermutation(v, n) ==
    /\ Len(v) = n
    /\ \A k \in 0..(n - 1) : Cardinality({i \in DOMAIN v : v[i] = k}) = 1
\* The position of x in a vector that holds it once.
PositionOf(v, x) == CHOOSE i \in DOMAIN v : v[i] = x
InBounds(sub, v) == sub.start_index + sub.length <= Len(v)

\* C1: every route that mutate or crossover produces from permutations of 0..n
\* holds every index of 0..n exactly once, whatever the random draws.
C1_PermutationPreserved ==
    ((Done("mutate") \/ Done("crossover")) /\ call.result /= PANIC)
        => IsPermutation(call.result, Len(call.a))

\* C1 witness: a mutation relocated an element of a route of the longest length.
C1_Witness ==
    /\ Done("mutate")
    /\ Len(call.a) = MaxLen
    /\ call.draw <= call.prob
    /\ call.result /= call.a
    /\ IsPermutation(call.result, MaxLen)

\* The segment of A is one contiguous block of the child, in A's order.
SegmentIsBlock(child, a, sub) ==
    LET segment == get_values_in(sub, a)
    IN  \E offset \in 0..(Len(child) - Len(segment)) :
            SubSeq(child, offset + 1, offset + Len(segment)) = segment
\* The elements outside A's segment, as a set.
Others(a, sub) == Elems(a) \ Elems(get_values_in(sub, a))
\* The elements outside the segment keep the left-to-right order they have in b.
OthersInOrderOf(child, b, others) ==
    \A x, y \in others :
        PositionOf(b, x) < PositionOf(b, y) => PositionOf(child, x) < PositionOf(child, y)
\* b rotated left so that it starts at index start: b[start..] followed by b[..start].
RotateLeft(b, start) == SubSeq(b, start + 1, Len(b)) \o SubSeq(b, 1, start)

\* C4 as claimed: the segment of A is a contiguous block of the child and every
\* other element keeps the left-to-right order it has in B.
C4_Original ==
    (Done("ordered_crossover") /\ InBounds(call.sub, call.a))
        => /\ SegmentIsBlock(call.result, call.a, call.sub)
           /\ OthersInOrderOf(call.result, call.b, Others(call.a, call.sub))

\* C4 amended: the segment of A is a contiguous block of the child and every
\* other element keeps the order it has in B rotated to start at start_index.
C4_CyclicOrder ==
    (Done("ordered_crossover") /\ InBounds(call.sub, call.a))
        => /\ SegmentIsBlock(call.result, call.a, call.sub)
           /\ OthersInOrderOf(call.result, RotateLeft(call.b, call.sub.start_index),
                              Others(call.a, call.sub))

\* C4 witness: a crossover whose child holds elements of B from before and from
\* after the subsequence, so that B's order is kept only cyclically.
C4_Witness ==
    /\ Done("ordered_crossover")
    /\ InBounds(call.sub, call.a)
    /\ call.sub.length > 0
    /\ \E x, y \in Others(call.a, call.sub) :
          /\ PositionOf(call.b, x) <= call.sub.start_index
          /\ PositionOf(call.b, y) > call.sub.start_index
          /\ PositionOf(call.result, y) < PositionOf(call.result, x)

\* The elements of v that the segment lacks, in v's order.
Absent(v, segment) ==
    LET lacks(x) == x \notin Elems(segment)
    IN  SelectSeq(v, lacks)

\* C5: the child is B's elements inside S that A's segment lacks, then A's
\* segment, then B's elements after S and then those before S that the segment lacks.
C5_AssemblyOrder ==
    (Done("ordered_crossover") /\ InBounds(call.sub, call.a))
        => LET segment == get_values_in(call.sub, call.a)
               first == call.sub.start_index
               last == call.sub.start_index + call.sub.length
           IN  call.result =
                   Absent(SubSeq(call.b, first + 1, last), segment)
                   \o segment
                   \o Absent(SubSeq(call.b, last + 1, Len(call.b)), segment)
                   \o Absent(SubSeq(call.b, 1, first), segment)

\* C5 witness: a crossover in which all four parts of the child are non-empty.
C5_Witness ==
    /\ Done("ordered_crossover")
    /\ InBounds(call.sub, call.a)
    /\ LET segment == get_values_in(call.sub, call.a)
           first == call.sub.start_index
           last == call.sub.start_index + call.sub.length
       IN  /\ segment /= <<>>
           /\ Absent(SubSeq(call.b, first + 1, last), segment) /= <<>>
           /\ Absent(SubSeq(call.b, last + 1, Len(call.b)), segment) /= <<>>
           /\ Absent(SubSeq(call.b, 1, first), segment) /= <<>>

\* C6: the subsequence that spans the whole route yields A; a zero-length
\* subsequence at start_index s yields B[s..] followed by B[..s], which is B for s = 0.
C6_BoundaryCases ==
    Done("ordered_crossover")
        => /\ (call.sub = Subsequence(0, Len(call.a))) => call.result = call.a
           /\ (call.sub.length = 0 /\ call.sub.start_index <= Len(call.a))
                 => call.result = RotateLeft(call.b, call.sub.start_index)
           /\ (call.sub = Subsequence(0, 0)) => call.result = call.b

\* C6 witness: a zero-length subsequence inside the route returned B reordered,
\* for parents that differ.
C6_Witness ==
    /\ Done("ordered_crossover")
    /\ call.sub.length = 0
    /\ call.sub.start_index \in 1..(Len(call.a) - 1)
    /\ call.a /= call.b
    /\ call.result = RotateLeft(call.b, call.sub.start_index)
    /\ call.result /= call.b

\* C7 as claimed: whenever mutate(0.0) returns a route, its index sequence is the
\* input's, for every value the draw from [0, 1) can take.
C7_IdentityAtZero ==
    (Done("mutate") /\ call.prob = 0 /\ call.result /= PANIC) => call.result = call.a

\* C8: mutate(1.0) of a route of at least three distinct indices returns a
\* sequence that differs from the input, whatever the draws.
C8_DifferentAtOne ==
    (Done("mutate") /\ call.prob = ProbDen /\ Len(call.a) >= 3)
        => (call.result /= PANIC /\ call.result /= call.a)

\* C8 witness: a mutation at probability 1 of a route of more than three nodes
\* relocated a donor sampled from the candidate list.
C8_Witness ==
    /\ Done("mutate")
    /\ call.prob = ProbDen
    /\ Len(call.a) > 3
    /\ call.move_idx \in Elems(DonorCandidates(call.a, call.put_before_idx))
    /\ call.result /= call.a

\* The sum of d[seq[i-1]][seq[i]] over the Rust indices i = 1 .. upto.
RECURSIVE EdgeSum(_, _, _)
EdgeSum(distances, seq, upto) ==
    IF upto < 1 THEN 0
    ELSE EdgeSum(distances, seq, upto - 1) + distances[seq[upto] + 1][seq[upto + 1] + 1]
ClosedWalkCost(distances, seq) ==
    distances[seq[Len(seq)] + 1][seq[1] + 1] + EdgeSum(distances, seq, Len(seq) - 1)

\* C9: the tour cost is d[seq[k-1]][seq[0]] plus the sum of the consecutive
\* edges, fitness is its negative, a cheaper walk has the larger fitness, and
\* route [1,2,0] on the test matrix has cost 6 and fitness -6.
C9_FitnessIsNegatedCost ==
    Done("fitness")
        => /\ call.cost = ClosedWalkCost(call.dm, call.a)
           /\ call.fit = -ClosedWalkCost(call.dm, call.a)
           /\ (Len(call.a) = 1 /\ call.dm = test_dist_mat) => call.cost = 0
           /\ \A other \in Walks(n_units(call.dm)) :
                 compute_cost(call.dm, other) < call.cost
                     => fitness(other, call.dm) > call.fit
           /\ (call.a = <<1, 2, 0>> /\ call.dm = test_dist_mat)
                 => (call.cost = 6 /\ call.fit = -6)

\* C9 witness: the fitness of route [1,2,0] on the test matrix was computed.
C9_Witness ==
    /\ Done("fitness")
    /\ call.a = <<1, 2, 0>>
    /\ call.dm = test_dist_mat
    /\ call.fit = -6

\* C10: get_n_fittest returns min(n, |P|) distinct members of P, no route of lower
\* fitness before one of higher fitness, none costlier than a member left out;
\* for the costs 6, 2, 4 and n = 2 it returns the routes of cost 2 and 4 in that order.
C10_SelectionCorrect ==
    Done("get_n_fittest")
        => LET P == Elems(call.iter)
               sel == call.selected
               cost(r) == ClosedWalkCost(call.dm, r)
           IN  /\ Len(sel) = Min(call.n, Cardinality(P))
               /\ Elems(sel) \subseteq P
               /\ Cardinality(Elems(sel)) = Len(sel)
               /\ \A i, j \in DOMAIN sel : i < j => cost(sel[i]) <= cost(sel[j])
               /\ \A r \in Elems(sel) : \A q \in P \ Elems(sel) : cost(r) <= cost(q)
               /\ (P = {<<1, 2, 0>>, <<1, 0>>, <<2, 0>>} /\ call.n = 2)
                     => sel = <<<<1, 0>>, <<2, 0>>>>

\* C10 witness: the two fittest of the routes of cost 6, 2 and 4 were selected
\* from a set that iterates the costliest route first.
C10_Witness ==
    /\ Done("get_n_fittest")
    /\ call.iter = <<<<1, 2, 0>>, <<1, 0>>, <<2, 0>>>>
    /\ call.n = 2
    /\ call.selected = <<<<1, 0>>, <<2, 0>>>>

\* C11: Routes::from(v) stores every route that occurs in v and exactly one entry
\* per distinct index sequence of v, so its size is the number of distinct
\* sequences of v.
C11_Deduplication ==
    Done("from") =>
        /\ \A i \in DOMAIN call.iter :
              Cardinality({j \in DOMAIN call.entries : call.entries[j] = call.iter[i]}) = 1
        /\ \A j \in DOMAIN call.entries : \E i \in DOMAIN call.iter :
              call.iter[i] = call.entries[j]
        /\ Len(call.entries) = Cardinality(Elems(call.iter))

\* C11 witness: the vector of test_route_vec_to_xx_hashset, which holds [0, 1, 2]
\* twice, became a set of two routes.
C11_Witness ==
    /\ Done("from")
    /\ call.iter = <<<<0, 1, 2>>, <<0, 1, 2>>, <<1, 0, 2>>>>
    /\ Len(call.entries) = 2

\* C12: evolve_individuals on m members computes main.crossover(other).mutate(
\* mutate_prob) exactly once for every ordered pair of distinct members, in both
\* directions, never for a member with itself, and so collects m * (m - 1)
\* offspring (ahead of the m retained members) before the set removes duplicates.
C12_EveryOrderedPair ==
    Done("evolve_individuals") =>
        LET m == Len(call.iter)
        IN  /\ Len(call.crossed) = m * (m - 1)
            /\ \A i, j \in DOMAIN call.iter :
                  Cardinality({k \in DOMAIN call.crossed :
                                  call.crossed[k] = <<call.iter[i], call.iter[j]>>})
                      = IF i = j THEN 0 ELSE 1
            /\ Len(call.individuals) = m * (m - 1) + m
            /\ \A k \in DOMAIN call.crossed :
                  call.individuals[k] \in
                      Offspring(call.crossed[k][1], call.crossed[k][2], call.prob)
            /\ SubSeq(call.individuals, m * (m - 1) + 1, Len(call.individuals)) = call.iter

\* C12 witness: the three routes of test_evolve::simple_test gave six offspring,
\* among them two equal ones, ahead of the three members.
C12_Witness ==
    /\ Done("evolve_individuals")
    /\ Len(call.iter) = 3
    /\ Len(call.crossed) = 6
    /\ Len(call.individuals) = 9
    /\ call.individuals[1] = call.individuals[2]

\* ================================================ properties of the driver
\* The number of locations of the run: the dimension of its distance matrix.
RunLength == n_units(args.distance_matrix)
AllValid(routes) == \A r \in routes : IsPermutation(r, RunLength)
NoDuplicate(v) == Cardinality(Elems(v)) = Len(v)
\* A run whose routes are valid for its matrix and have at least three nodes.
ValidRun == AllValid(args.initial_population) /\ RunLength >= 3
\* The fitness of the fittest member of a non-empty population.
BestFitness(routes, distance_mat) ==
    CHOOSE f \in {fitness(r, distance_mat) : r \in routes} :
        \A r \in routes : f >= fitness(r, distance_mat)

\* C2: in every state of a run that starts from permutations of 0..n, every member
\* of the fold's population, of every worker's population and elite list, of the
\* collected routes and of the returned population is a permutation of 0..n (so
\* all have length n), and no elite list holds a route twice.
C2_PopulationInvariant ==
    AllValid(args.initial_population) =>
        /\ AllValid(pop)
        /\ \A w \in DOMAIN workers :
              /\ AllValid(workers[w].pop)
              /\ AllValid(Elems(workers[w].elite))
              /\ NoDuplicate(workers[w].elite)
        /\ AllValid(Elems(collected))
        /\ AllValid(returned)

\* C2 witness: two workers returned a merged population that holds a route the
\* initial population lacks.
C2_Witness ==
    /\ pc = "returned"
    /\ args.n_jobs = 2
    /\ RunLength = 4
    /\ returned \ args.initial_population /= {}
    /\ Len(collected) > Cardinality(returned)

C3_FoldStep ==
    (pc = "fold" /\ gen' = gen + 1 /\ pop /= {} /\ args.size_generation >= 1)
        => /\ pop' /= {}
           /\ BestFitness(pop', args.distance_matrix) >= BestFitness(pop, args.distance_matrix)
C3_WorkerStep ==
    \A w \in DOMAIN workers :
        (/\ w \in DOMAIN workers'
         /\ workers'[w].gen = workers[w].gen + 1
         /\ workers[w].pop /= {}
         /\ args.size_generation >= 1)
            => /\ workers'[w].pop /= {}
               /\ BestFitness(workers'[w].pop, args.distance_matrix)
                     >= BestFitness(workers[w].pop, args.distance_matrix)
C3_Final ==
    (/\ pc = "returned"
     /\ args.initial_population /= {}
     /\ args.size_generation >= 1
     /\ AllValid(args.initial_population))
        => /\ returned /= {}
           /\ BestFitness(returned, args.distance_matrix)
                 >= BestFitness(args.initial_population, args.distance_matrix)

C13_SizeGenerationKept ==
    (pc = "returned" /\ args.n_generations >= 1 /\ ValidRun)
        => Cardinality(returned) <= args.size_generation

\* ceil(n / d) for d >= 1.
Ceil(n, d) == (n + d - 1) \div d

\* C14: every worker of a run from valid routes that completed its fold ran
\* exactly ceil(n_generations / n_jobs) generations.
C14_CeilGenerations ==
    \A w \in DOMAIN workers :
        (workers[w].status \in {"finished", "joined"} /\ ValidRun
                /\ args.initial_population /= {})
            => workers[w].gen = Ceil(args.n_generations, args.n_jobs)

\* The elite lists of the first k workers, concatenated in spawn order.
RECURSIVE ElitesUpTo(_)
ElitesUpTo(k) == IF k = 0 THEN <<>> ELSE ElitesUpTo(k - 1) \o workers[k].elite

SpawnedBeforeJoin ==
    (pc \in {"join", "unwinding", "returned"} \/ Joined /= {} \/ collected /= <<>>)
        => (args.n_jobs > 0 => Len(workers) = args.n_jobs)
\* A joined worker had completed its fold: no join takes routes of a running worker.
JoinedHadFinished ==
    \A w \in DOMAIN workers :
        workers[w].status = "joined"
            => /\ workers[w].gen = GenerationsPerWorker(args.n_generations, args.n_jobs)
               /\ Len(workers[w].elite) = Min(args.size_generation,
                                              Cardinality(workers[w].pop))
\* No worker runs once evolve_population has returned or unwound.
NoneRunningAtExit ==
    pc \in {"returned", "panicked"}
        => \A w \in DOMAIN workers : workers[w].status /= "running"

\* C16 as claimed: no routes are in the collected vector before every worker has
\* been joined.
C16_Original ==
    /\ SpawnedBeforeJoin
    /\ JoinedHadFinished
    /\ NoneRunningAtExit
    /\ collected /= <<>> => \A w \in DOMAIN workers : workers[w].status = "joined"

\* C16: all n_jobs workers are spawned before any is joined; the collected vector
\* holds exactly the elite lists of the workers joined so far, in spawn order, so
\* a worker's routes are taken when that worker is joined (later workers may
\* still run) and never from a running worker; the returned population is built
\* after every worker has been joined, and no worker runs at the return.
C16_JoinOrder ==
    /\ SpawnedBeforeJoin
    /\ JoinedHadFinished
    /\ NoneRunningAtExit
    /\ Joined = 1..Cardinality(Joined)
    /\ collected = ElitesUpTo(Cardinality(Joined))
    /\ (pc = "returned" /\ args.n_jobs > 0)
          => \A w \in DOMAIN workers : workers[w].status = "joined"

\* C16 witness: the routes of the first worker are collected while the second
\* worker still runs.
C16_Witness ==
    /\ pc = "join"
    /\ Len(workers) = 2
    /\ workers[1].status = "joined"
    /\ collected /= <<>>
    /\ workers[2].status = "running"

\* A step changes at most one worker, and neither the arguments (the initial
\* population and the distance matrix) nor the population of another worker.
C17_StepLocal ==
    /\ args' = args
    /\ \A w \in DOMAIN workers : w \in DOMAIN workers'
    /\ Cardinality({w \in DOMAIN workers : workers'[w] /= workers[w]}) <= 1
\* A generation of a worker is a generation of its own population, whatever the
\* other workers hold, and a worker starts from the initial population.
C17_AsAlone ==
    \A w \in DOMAIN workers' :
        IF w \in DOMAIN workers
        THEN /\ workers'[w].gen = workers[w].gen + 1
                => workers'[w].pop \in Generation(workers[w].pop, args.size_generation,
                                                 args.distance_matrix)
             /\ workers'[w].gen = workers[w].gen => workers'[w].pop = workers[w].pop
             /\ workers'[w].gen \in {workers[w].gen, workers[w].gen + 1}
        ELSE workers'[w].pop = args.initial_population /\ workers'[w].gen = 0

\* C17: a step of one worker changes no other worker's population, nor the
\* initial population, nor the distance matrix; under every interleaving every
\* generation of a worker is one it can make alone from its own population; and
\* the merged result is the union of the elite lists in spawn order, whatever
\* the order in which the workers ran and finished.
C17_NoSharedState ==
    /\ [][C17_StepLocal /\ C17_AsAlone]_vars
    /\ [](pc = "returned" /\ args.n_jobs > 0
            => returned = Elems(ElitesUpTo(Len(workers))))

\* C17 witness: the second worker finished with another population while the
\* first worker has not run a generation yet.
C17_Witness ==
    /\ Len(workers) = 2
    /\ workers[1].status = "running"
    /\ workers[1].gen = 0
    /\ workers[2].status = "finished"
    /\ workers[2].pop /= workers[1].pop
    /\ workers[1].pop = args.initial_population

\* Where a run stands once a worker has panicked.
C18_NoResult ==
    /\ (\E w \in DOMAIN workers : workers[w].status = "panicked")
          => (pc /= "returned" /\ returned = {})
    /\ (pc \in {"unwinding", "panicked"} /\ args.n_jobs > 0)
          => /\ \E w \in DOMAIN workers : workers[w].status = "panicked"
             /\ workers[Cardinality(Joined) + 1].status = "panicked"
    /\ (pc = "panicked")
          => (returned = {} /\ \A w \in DOMAIN workers : workers[w].status /= "running")
\* The panic of a worker is never taken back, and no step after it returns.
C18_PanicStays ==
    \A w \in DOMAIN workers :
        workers[w].status = "panicked"
            => (workers'[w].status = "panicked" /\ pc' /= "returned" /\ returned' = {})

\* C18: when a worker has panicked evolve_population returns no population: the
\* run ends in the panic that join().unwrap() raises, after all workers have
\* ended, and the routes collected from the other workers are not returned.
C18_AllOrNothing == []C18_NoResult /\ [][C18_PanicStays]_vars

\* C18 witness: the first worker finished and its routes were collected, the
\* second worker panicked, and the run ended in the panic.
C18_Witness ==
    /\ pc = "panicked"
    /\ Len(workers) = 2
    /\ workers[1].status = "joined"
    /\ collected /= <<>>
    /\ workers[2].status = "panicked"

C20_Degenerate(before, after) ==
    /\ (Cardinality(before) <= 1 /\ AllValid(before))
          => after = IF args.size_generation = 0 THEN {} ELSE before
    /\ (before = {} \/ args.size_generation = 0) => after = {}
C20_FoldStep ==
    /\ (pc = "fold" /\ gen' = gen + 1) => C20_Degenerate(pop, pop')
    /\ (pc = "fold" /\ Cardinality(pop) <= 1 /\ AllValid(pop)) => pc' /= "panicked"
C20_WorkerStep ==
    \A w \in DOMAIN workers :
        w \in DOMAIN workers' =>
            /\ workers'[w].gen = workers[w].gen + 1
                  => C20_Degenerate(workers[w].pop, workers'[w].pop)
            /\ (Cardinality(workers[w].pop) <= 1 /\ AllValid(workers[w].pop))
                  => workers'[w].status /= "panicked"

\* C20: a generation on a population of zero or one route makes no offspring and
\* does not fail (the population stays as it is, up to the truncation);
\* truncating to size_generation = 0 gives the empty population and the empty
\* elite list; and an empty population stays empty in every later generation.
C20_DegeneratePopulations ==
    /\ [][C20_FoldStep /\ C20_WorkerStep]_vars
    /\ [](\A w \in DOMAIN workers :
             (workers[w].status \in {"finished", "joined"} /\ args.size_generation = 0)
                => workers[w].elite = <<>>)

\* C20 witness: a fold truncated a non-empty population to size 0 and ran a
\* further generation on the empty population.
C20_Witness ==
    /\ pc = "fold"
    /\ gen = 2
    /\ args.initial_population /= {}
    /\ args.size_generation = 0
    /\ pop = {}

\* ------------------------------------------ random initialisation: properties
RandomDone(op) == call.op = op /\ call.stage = "done"

\* The result of a returned Routes::random: exactly n_routes pairwise distinct
\* permutations of all_objects.
RandomResultOk ==
    RandomDone("random")
        => /\ Len(call.entries) = call.n
           /\ Cardinality(Elems(call.entries)) = call.n
           /\ \A i \in DOMAIN call.entries : IsPermutation(call.entries[i], Len(call.a))

\* Adding n! random routes to a population of routes of length n ends with
\* exactly n! members.
AddFills ==
    (/\ call.op = "add_n_random_nodes"
     /\ call.iter /= <<>>
     /\ call.n = Factorial(Len(Head(call.iter))))
        => <>(/\ call.stage = "done"
              /\ Cardinality(Elems(call.individuals)) = call.n
              /\ Len(call.individuals) = call.n)

\* C21 as claimed: adding n! random routes to any population of routes of length
\* n, the population without routes included, returns.
C21_Original ==
    (call.op = "add_n_random_nodes" /\ call.n = Factorial(n_units(test_dist_mat)))
        => call.stage /= "panicked"

\* C21: Routes::random(count, n) returns exactly count pairwise distinct
\* permutations of 0..n, returns under fair sampling whenever count <= n! and
\* never returns when count > n!; adding n! random routes to a population that
\* has at least one route of length n yields exactly n! members.
C21_RandomInitialisation ==
    /\ []RandomResultOk
    /\ (call.op = "random" /\ call.n <= Factorial(Len(call.a)))
           => <>RandomDone("random")
    /\ (call.op = "random" /\ call.n > Factorial(Len(call.a)))
           => [](call.stage /= "done")
    /\ AddFills

C21_Witness ==
    /\ RandomDone("add_n_random_nodes")
    /\ call.iter = <<<<0, 1, 2>>>>
    /\ call.n = Factorial(3)
    /\ Len(call.entries) = Factorial(3)
    /\ Len(call.individuals) = Factorial(3)

\* ------------------------------------------------ subsequence: properties
\* C22: for every sequence of at least 2 elements, the subsequence crossover
\* draws has start_index < len, length < len - start_index and
\* start_index + length < len.
C22_InsideSequence ==
    Done("crossover")
        => /\ call.sub \in random_subsequence(Len(call.a))
           /\ call.sub.start_index < Len(call.a)
           /\ call.sub.length < Len(call.a) - call.sub.start_index
           /\ call.sub.start_index + call.sub.length < Len(call.a)

C22_Witness ==
    /\ Done("crossover")
    /\ Len(call.a) = MaxLen
    /\ call.sub = Subsequence(1, 1)
    /\ IsPermutation(call.result, MaxLen)

\* The pairs the ranges [0, len - 2] and [1, len - start_index - 1] hold.
WholeRanges(len_sequence) ==
    {Subsequence(start_index, length) :
        start_index \in 0..(len_sequence - 2), length \in 1..(len_sequence - 1)}
    \ {sub \in [start_index : 0..(len_sequence - 2), length : 1..(len_sequence - 1)] :
          sub.length > len_sequence - sub.start_index - 1}

\* C23: for a sequence of at least 3 elements the subsequences crossover can draw
\* are exactly the pairs with start_index in [0, len - 2] and length in
\* [1, len - start_index - 1].
C23_WholeRange ==
    (Done("crossover") /\ Len(call.a) >= 3)
        => /\ call.sub \in WholeRanges(Len(call.a))
           /\ random_subsequence(Len(call.a)) = WholeRanges(Len(call.a))

\* The slices of the sequence inside, before and after the subsequence.
SliceIn(sub, v) == [i \in 1..sub.length |-> v[sub.start_index + i]]
SliceBefore(sub, v) == [i \in 1..sub.start_index |-> v[i]]
SliceAfter(sub, v) ==
    [i \in 1..(Len(v) - sub.start_index - sub.length) |-> v[sub.start_index + sub.length + i]]

\* C24 as claimed: each of the three views is None when start_index + length
\* exceeds the length of the sequence.
C24_Original ==
    (Done("get_values") /\ ~InBounds(call.sub, call.a))
        => /\ call.values_in = NONE
           /\ call.values_before = NONE
           /\ call.values_after = NONE

\* C24: when start_index + length <= len the three views are the slices inside,
\* before and after the range; when it exceeds len, get_values_in and
\* get_values_after are None, and get_values_before is None only when
\* start_index alone exceeds len, else the slice before start_index.
C24_Views ==
    Done("get_values")
        => /\ InBounds(call.sub, call.a)
                => /\ call.values_in = SliceIn(call.sub, call.a)
                   /\ call.values_before = SliceBefore(call.sub, call.a)
                   /\ call.values_after = SliceAfter(call.sub, call.a)
           /\ ~InBounds(call.sub, call.a)
                => /\ call.values_in = NONE
                   /\ call.values_after = NONE
                   /\ call.sub.start_index > Len(call.a) => call.values_before = NONE
                   /\ call.sub.start_index <= Len(call.a)
                        => call.values_before = SliceBefore(call.sub, call.a)

C24_Witness ==
    /\ Done("get_values")
    /\ call.a = <<0, 1, 2>>
    /\ call.sub = Subsequence(2, 2)
    /\ call.values_in = NONE
    /\ call.values_before = <<0, 1>>

\* ------------------------------------------------ driver: further properties
\* C25: after a sequential run of at least one generation from size_generation
\* routes, the fitness of the fittest returned route is strictly less than the
\* fitness of the fittest initial route.
C25_FitnessStrictlyLess ==
    (/\ pc = "returned"
     /\ args.n_jobs = 0
     /\ args.n_generations >= 1
     /\ ValidRun
     /\ args.size_generation >= 1
     /\ Cardinality(args.initial_population) = args.size_generation)
        => BestFitness(returned, args.distance_matrix)
              < BestFitness(args.initial_population, args.distance_matrix)

\* ------------------------------------------------ evolve: properties
\* C26: P.evolve(mutate_prob) holds every member of P, so P is a subset of the
\* result, and the result has between m and m * (m - 1) + m members.
C26_ParentsRetained ==
    Done("evolve") =>
        LET m == Cardinality(Elems(call.iter))
        IN  /\ Elems(call.iter) \subseteq call.evolved
            /\ m <= Cardinality(call.evolved)
            /\ Cardinality(call.evolved) <= m * (m - 1) + m

C26_Witness ==
    /\ Done("evolve")
    /\ Elems(call.iter) = {<<1, 2, 0>>, <<1, 0, 2>>}
    /\ call.prob = ProbDen
    /\ Cardinality(call.evolved) = 2 * (2 - 1) + 2
    /\ Elems(call.iter) \subseteq call.evolved

\* The bounds on a population after the truncation of a generation.
SizeKept(population) ==
    /\ Cardinality(population) >= Min(args.size_generation,
                                      Cardinality(args.initial_population))
    /\ Cardinality(population) <= args.size_generation

\* C27: after every generation g >= 1 of the fold and of every worker the
\* population has at least min(size_generation, |initial population|) and at
\* most size_generation members, whatever the draws; with size_generation >= 2
\* and two initial members it never has fewer than 2.
C27_SizeNeverCollapses ==
    /\ (pc \in {"fold", "returned"} /\ args.n_jobs = 0 /\ gen >= 1) => SizeKept(pop)
    /\ \A w \in DOMAIN workers :
          (workers[w].gen >= 1 /\ workers[w].status /= "panicked")
              => /\ SizeKept(workers[w].pop)
                 /\ (args.size_generation >= 2 /\ Cardinality(args.initial_population) >= 2)
                       => Cardinality(workers[w].pop) >= 2

C27_Witness ==
    /\ pc = "fold"
    /\ gen = 2
    /\ args.size_generation = 2
    /\ Cardinality(args.initial_population) = 2
    /\ Cardinality(pop) = 2
    /\ pop /= args.initial_population

\* ------------------------------------------------ mutation: properties
\* The sequence without the entries equal to x.
Without(v, x) == SelectSeq(v, LAMBDA y : y /= x)

\* after is before with the element at Rust position m taken out and put back
\* immediately ahead of the element that was at Rust position p.
Relocated(before, after, p, m) ==
    LET moved == before[m + 1]
        target == before[p + 1]
        at == IF m < p THEN p - 1 ELSE p
    IN  /\ Len(after) = Len(before)
        /\ after[at + 1] = moved
        /\ after[at + 2] = target
        /\ Without(after, moved) = Without(before, moved)

\* C28: a mutation with insertion point p and donor m /= p, and change_order on
\* such p and m, return the input with the element at m removed and re-inserted
\* immediately before the element that was at p (at index p - 1 when m < p, at
\* index p when m > p), the other elements in their order; change_order with
\* m = p returns the input.
C28_SingleRelocation ==
    /\ (Done("mutate") /\ call.draw <= call.prob /\ call.result /= PANIC)
          => /\ call.move_idx /= call.put_before_idx
             /\ Relocated(call.a, call.result, call.put_before_idx, call.move_idx)
    /\ Done("change_order")
          => IF call.move_idx = call.put_before_idx
             THEN call.result = call.a
             ELSE Relocated(call.a, call.result, call.put_before_idx, call.move_idx)

C28_Witness ==
    /\ Done("mutate")
    /\ call.a = <<0, 1, 2, 3>>
    /\ call.draw <= call.prob
    /\ call.put_before_idx = 2
    /\ call.move_idx = 0
    /\ call.result = <<1, 0, 2, 3>>

\* The positions 0 .. n - 2 the candidate list is built from, without the
\* insertion point p and without p - 1.
ListedDonors(indexes, p) == (0..(Len(indexes) - 2)) \ {p, p - 1}

\* C29: when excluding p and p - 1 leaves no donor candidate, a mutation of a
\* route of at least 2 nodes uses the donor (p + 1) mod n and returns a
\* permutation; it does not fail.
C29_DonorFallback ==
    (/\ Done("mutate")
     /\ call.draw <= call.prob
     /\ ListedDonors(call.a, call.put_before_idx) = {})
        => /\ call.move_idx = (call.put_before_idx + 1) % Len(call.a)
           /\ call.result /= PANIC
           /\ IsPermutation(call.result, Len(call.a))

\* The positions of the route other than p and p - 1.
OtherPositions(indexes, p) == (0..(Len(indexes) - 1)) \ {p, p - 1}

\* C30: in a mutation of a route of at least 4 nodes the donor index is drawn
\* from exactly the positions other than the insertion point p and p - 1.
C30_DonorCandidates ==
    (Done("mutate") /\ call.draw <= call.prob /\ Len(call.a) >= 4)
        => /\ call.move_idx \in OtherPositions(call.a, call.put_before_idx)
           /\ MoveIdxChoices(call.a, call.put_before_idx)
                 = OtherPositions(call.a, call.put_before_idx)

====
